---- MODULE Spec2Model ----
(***************************************************************************)
(* A model of espfit/utils/sampler/reweight.py: the SetupSamplerReweight   *)
(* session (run, get_effective_sample_size, compute_loss), its weight/ESS  *)
(* arithmetic and its per-system loss.                                     *)
(*                                                                         *)
(* Numbers.  Real-valued quantities are exact fractions <<n, d>>, d > 0,   *)
(* kept in lowest terms.  Log-weights are measured in units of ln 2, so    *)
(* exp is the power of two; energies are integers, in a unit in which      *)
(* beta * delta is an integer for the temperatures drawn.  Experimental    *)
(* and predicted values are integers in units of 0.5 Hz, so that the       *)
(* default error 0.5 is the integer 1.                                     *)
(*                                                                         *)
(* Environment.  The caller assigns self.samplers any sequence of samplers *)
(* with distinct target identifiers (self.weights is keyed by them), each  *)
(* target simulated at its own temperature; the temporary samplers of one  *)
(* call carry any temperatures and one shared candidate parameter set.     *)
(* The simulation engine, mdtraj, the potential evaluator, the experiment  *)
(* reader and compute_jcouplings are outside the file: an engine call may  *)
(* fail, a run leaves any trajectory of 1..MaxFrames frames, a context     *)
(* holds arbitrary positions until setPositions is called on it, and       *)
(* compute_jcouplings returns any table of PredSet.                        *)
(***************************************************************************)
EXTENDS Integers, Sequences, FiniteSets, TLC

\* ------------------------------------------------------------------ bounds
MaxSystems == 2      \* longest samplers / temporary_samplers sequence
MaxFrames  == 2      \* most frames a trajectory holds
MaxLog     == 2      \* largest |log-weight| drawn for the estimator
MaxN       == 3      \* longest log-weight vector drawn for the estimator
MaxResi    == 2      \* most structural units of an experiment record
MaxMeas    == 2      \* most measurements of an experiment record

\* ------------------------------------------------------------- fractions
RECURSIVE Gcd(_, _)
Gcd(a, b) == IF b = 0 THEN a ELSE Gcd(b, a % b)

Abs(x) == IF x < 0 THEN -x ELSE x

\* the fraction n/d (d # 0) in lowest terms with a positive denominator
Frac(n, d) ==
    LET g == Gcd(Abs(n), Abs(d))
        s == IF d < 0 THEN -1 ELSE 1
    IN  <<(s * n) \div g, (s * d) \div g>>

FAdd(x, y) == Frac(x[1] * y[2] + y[1] * x[2], x[2] * y[2])
FMul(x, y) == Frac(x[1] * y[1], x[2] * y[2])
FDiv(x, y) == Frac(x[1] * y[2], x[2] * y[1])
FLe(x, y)  == x[1] * y[2] <= y[1] * x[2]
FLt(x, y)  == x[1] * y[2] < y[1] * x[2]
FInt(n)    == <<n, 1>>

\* the not-a-number a float division 0/0 or an empty mean produces
NaN == <<0, 0>>

RECURSIVE Pow2(_)
Pow2(n) == IF n = 0 THEN 1 ELSE 2 * Pow2(n - 1)

\* ------------------------------------------------------- numpy operators
\* the largest log-weight (in units of ln 2) whose float64 exponential is 0
ExpUnderflow == -1075

\* np.exp of one log-weight (in units of ln 2); it underflows to 0
NpExp1(l) ==
    IF l <= ExpUnderflow THEN <<0, 1>>
    ELSE IF l >= 0 THEN <<Pow2(l), 1>> ELSE <<1, Pow2(-l)>>

\* np.exp(log_w), elementwise
NpExp(lw) == [k \in DOMAIN lw |-> NpExp1(lw[k])]

\* np.sum of a vector of fractions
RECURSIVE NpSum(_)
NpSum(v) == IF Len(v) = 0 THEN FInt(0) ELSE FAdd(v[1], NpSum(Tail(v)))

\* w ** 2, elementwise
NpSquare(v) == [k \in DOMAIN v |-> FMul(v[k], v[k])]

\* ------------------------------------------------------- optional values
\* Python's None and a present value x, as sequences of length 0 and 1
None    == <<>>
Some(x) == <<x>>

\* ------------------------------------------------------------- estimator
\* line 106: w_i = np.exp(log_w) / np.sum(np.exp(log_w)), on the vector e of
\* exponentials; a zero sum (every exponential underflowed) gives 0/0
Normalize(e) ==
    LET s == NpSum(e)
    IN  [k \in DOMAIN e |-> IF s[1] = 0 THEN NaN ELSE FDiv(e[k], s)]

\* Neff without the division by len(w_i)
NeffUnscaled(w) ==
    LET s == NpSum(w)
        q == NpSum(NpSquare(w))
    IN  IF \E k \in DOMAIN w : w[k] = NaN THEN NaN ELSE FDiv(FMul(s, s), q)

\* line 107: neff = np.sum(w_i) ** 2 / np.sum(w_i ** 2) / len(w_i)
Neff(w) ==
    LET s == NpSum(w)
        q == NpSum(NpSquare(w))
    IN  IF \E k \in DOMAIN w : w[k] = NaN
        THEN NaN
        ELSE FDiv(FDiv(FMul(s, s), q), FInt(Len(w)))

\* line 111: the record stored for one system
WeightRecord(lw) ==
    LET w_i == Normalize(NpExp(lw))
    IN  [neff |-> Neff(w_i), weights |-> w_i]

\* ---------------------------------------------------- external simulation
Targets   == {"A", "B"}          \* target identifiers
Temps     == {1, 2}              \* temperatures, in model kelvin
Thetas    == {"ref", "alt"}      \* parameter sets; "ref" generated the trajectory
Positions == {0, 1}              \* atomic configurations a frame can hold

\* KB_T_KCALPERMOL, in the model's energy unit per model kelvin
KB == 1

\* PotentialEvaluator: the energy of configuration x under parameter set theta
\* (getState(getEnergy=True).getPotentialEnergy() after setPositions(x))
PotentialEnergy(theta, x) == IF theta = "ref" THEN 2 * x ELSE 4 * x + 2

\* lines 95-97: delta in kcal/mol, beta = 1 / (KB * temp0), w = -1 * beta * delta
LogWeight(temp0, u0, u1) == (-1 * (u1 - u0)) \div (KB * temp0)

\* SameTemperature with the assertion dropped
SameTemperatureUnchecked(temp0, temp1) == TRUE

\* line 77: the assertion on the two temperatures
SameTemperature(temp0, temp1) == temp0 = temp1

\* the trajectories a simulation can leave on disk: 1..MaxFrames frames, the
\* atoms moving between consecutive frames
TrajSet ==
    {t \in UNION {[1..n -> Positions] : n \in 1..MaxFrames} :
        \A k \in 1..Len(t) - 1 : t[k] # t[k + 1]}

SeqsUpTo(S, n) == UNION {[1..m -> S] : m \in 0..n}

\* the temperature each target is simulated at
TemperatureOf(name) == IF name = "A" THEN 1 ELSE 2

SamplerSet   == {[target_name |-> n, temperature |-> TemperatureOf(n)] : n \in Targets}
TemporarySet == [temperature : Temps, theta : Thetas]

Min(a, b) == IF a <= b THEN a ELSE b

\* min() of a non-empty sequence of fractions
RECURSIVE MinFrac(_)
MinFrac(v) ==
    IF Len(v) = 1 THEN v[1]
    ELSE LET m == MinFrac(Tail(v)) IN IF FLe(v[1], m) THEN v[1] ELSE m

\* a set as a sequence, in the order CHOOSE fixes (the dict's key order is
\* irrelevant to min)
RECURSIVE SetToSeq(_)
SetToSeq(S) ==
    IF S = {} THEN <<>>
    ELSE LET x == CHOOSE y \in S : TRUE IN <<x>> \o SetToSeq(S \ {x})

\* openmm_positions always handing out the first frame
openmm_positions_first(t, k) == t[1]

\* traj.openmm_positions(i) (lines 89 and 92); frames are numbered from 1 here
openmm_positions(t, k) == t[k]

\* ------------------------------------------------------------------ state
VARIABLES
    samplers,            \* self.samplers: None or Some(sequence of samplers)
    weights,             \* self.weights: target_name -> [neff, weights]
    disk,                \* traj.nc under each output directory; <<>> = no file
    pc,                  \* where the session's single thread of control is
    ret,                 \* how the latest call ended
    temporary_samplers,  \* the argument of get_effective_sample_size
    i,                   \* position of the running loop over the samplers
    traj,                \* the trajectory loaded for the current pair
    frame,               \* the running frame of the inner loop
    log_w,               \* the local log_w
    neffs,               \* the local neffs: None while unbound
    potential_energy,    \* the local potential_energy of the current frame
    refPos,              \* positions held by sampler.simulation.context
    candPos,             \* positions held by temporary_sampler.simulation.context
    touched,             \* history: pairs loaded / evaluated / stored this pass
    weights0,            \* history: self.weights when the running pass began
    calls,               \* history: engine calls of the latest run()
    loss_list,           \* the local loss_list of compute_loss
    request              \* history: the latest compute_jcouplings(weights=...)

sessVars == <<samplers, weights, disk, pc, ret, temporary_samplers, i, traj,
              frame, log_w, neffs, potential_energy, refPos, candPos, touched,
              weights0, calls, loss_list, request>>

passLocals == <<temporary_samplers, i, traj, frame, log_w, neffs,
                potential_energy, refPos, candPos>>

NoRequest == [target |-> "", arg |-> None]

NoTouch == [loaded |-> {}, evaluated |-> {}, stored |-> {}]

Systems == samplers[1]

\* the pairs zip(self.samplers, temporary_samplers) yields (line 71)
NPairs == Min(Len(Systems), Len(temporary_samplers))

ResetLocals ==
    /\ temporary_samplers' = <<>>
    /\ i' = 0
    /\ traj' = <<>>
    /\ frame' = 0
    /\ log_w' = <<>>
    /\ neffs' = None
    /\ potential_energy' = 0
    /\ refPos' = 0
    /\ candPos' = 0

\* lines 32-34
SessInit ==
    /\ samplers = None
    /\ weights = <<>>
    /\ disk = [n \in Targets |-> <<>>]
    /\ pc = "idle"
    /\ ret = [op |-> "init", status |-> "ok", val |-> FInt(0), at |-> 0,
              touched |-> NoTouch]
    /\ temporary_samplers = <<>>
    /\ i = 0
    /\ traj = <<>>
    /\ frame = 0
    /\ log_w = <<>>
    /\ neffs = None
    /\ potential_energy = 0
    /\ refPos = 0
    /\ candPos = 0
    /\ touched = NoTouch
    /\ weights0 = <<>>
    /\ calls = <<>>
    /\ loss_list = <<>>
    /\ request = NoRequest

\* the caller assigns the public attribute self.samplers
SetSamplers(s) ==
    /\ pc = "idle"
    /\ samplers' = Some(s)
    /\ ret' = [op |-> "set", status |-> "ok", val |-> FInt(0), at |-> 0,
               touched |-> NoTouch]
    /\ touched' = NoTouch
    /\ calls' = <<>>
    /\ loss_list' = <<>>
    /\ request' = NoRequest
    /\ UNCHANGED <<weights, disk, pc, weights0>>
    /\ UNCHANGED passLocals

\* ----------------------------------------------------------------- run()
\* line 44: entering the loop; iterating None raises TypeError
RunCall ==
    /\ pc = "idle"
    /\ calls' = <<>>
    /\ touched' = NoTouch
    /\ IF samplers = None
       THEN /\ ret' = [op |-> "run", status |-> "TypeError", val |-> FInt(0),
                       at |-> 0, touched |-> NoTouch]
            /\ UNCHANGED <<pc, i>>
       ELSE /\ ret' = [op |-> "run", status |-> "running", val |-> FInt(0),
                       at |-> 0, touched |-> NoTouch]
            /\ i' = 1
            /\ pc' = IF Len(Systems) = 0 THEN "run_end" ELSE "run_minimize"
    /\ loss_list' = <<>>
    /\ request' = NoRequest
    /\ UNCHANGED <<samplers, weights, disk, weights0,
                   temporary_samplers, traj, frame, log_w, neffs,
                   potential_energy, refPos, candPos>>

\* RunMinimize noting the failure but going on to sampler.run()
RunMinimizeKeepsGoing(fails) ==
    /\ pc = "run_minimize"
    /\ calls' = Append(calls, <<"minimize", i>>)
    /\ pc' = "run_run"
    /\ ret' = IF fails THEN [ret EXCEPT !.status = "EngineError", !.at = i] ELSE ret
    /\ UNCHANGED <<i, samplers, weights, disk, touched, weights0, loss_list,
                   request, temporary_samplers, traj, frame, log_w, neffs,
                   potential_energy, refPos, candPos>>

\* line 46: sampler.minimize(); the engine may fail
RunMinimize(fails) ==
    /\ pc = "run_minimize"
    /\ calls' = Append(calls, <<"minimize", i>>)
    /\ IF fails
       THEN /\ pc' = "idle"
            /\ ret' = [ret EXCEPT !.status = "EngineError", !.at = i]
            /\ i' = 0
       ELSE /\ pc' = "run_run"
            /\ UNCHANGED <<ret, i>>
    /\ UNCHANGED <<samplers, weights, disk, touched, weights0, loss_list, request,
                   temporary_samplers, traj, frame, log_w, neffs,
                   potential_energy, refPos, candPos>>

\* line 47: sampler.run(); the engine may fail, else it leaves trajectory t
RunRun(fails, t) ==
    /\ pc = "run_run"
    /\ calls' = Append(calls, <<"run", i>>)
    /\ IF fails
       THEN /\ pc' = "idle"
            /\ ret' = [ret EXCEPT !.status = "EngineError", !.at = i]
            /\ i' = 0
            /\ UNCHANGED disk
       ELSE /\ disk' = [disk EXCEPT ![Systems[i].target_name] = t]
            /\ i' = i + 1
            /\ pc' = IF i < Len(Systems) THEN "run_minimize" ELSE "run_end"
            /\ UNCHANGED ret
    /\ UNCHANGED <<samplers, weights, touched, weights0, loss_list, request,
                   temporary_samplers, traj, frame, log_w, neffs,
                   potential_energy, refPos, candPos>>

\* line 47, loop exhausted: run() returns None
RunReturn ==
    /\ pc = "run_end"
    /\ pc' = "idle"
    /\ ret' = [ret EXCEPT !.status = "ok"]
    /\ i' = 0
    /\ UNCHANGED <<samplers, weights, disk, touched, weights0, calls, loss_list, request,
                   temporary_samplers, traj, frame, log_w, neffs,
                   potential_energy, refPos, candPos>>

\* ------------------------------------------- get_effective_sample_size()
\* a raise or a return: the frame of the call is dropped
EssLeave(status, val, at, t) ==
    /\ pc' = "idle"
    /\ ret' = [op |-> "ess", status |-> status, val |-> val, at |-> at,
               touched |-> t]
    /\ touched' = NoTouch
    /\ weights0' = <<>>
    /\ ResetLocals

\* lines 68-69: the call, and its early return of -1
EssCall(c) ==
    /\ pc = "idle"
    /\ calls' = <<>>
    /\ IF samplers = None
       THEN /\ EssLeave("ok", FInt(-1), 0, NoTouch)
       ELSE /\ pc' = "ess_pair"
            /\ ret' = [op |-> "ess", status |-> "running", val |-> FInt(0),
                       at |-> 0, touched |-> NoTouch]
            /\ temporary_samplers' = c
            /\ i' = 1
            /\ neffs' = None
            /\ touched' = NoTouch
            /\ weights0' = weights
            /\ UNCHANGED <<traj, frame, log_w, potential_energy, refPos, candPos>>
    /\ loss_list' = <<>>
    /\ request' = NoRequest
    /\ UNCHANGED <<samplers, weights, disk>>

\* lines 71-87: the next pair; the temperature assertion; mdtraj.load
EssPair(x0, x1) ==
    /\ pc = "ess_pair"
    /\ i <= NPairs
    /\ LET sampler == Systems[i]
           temporary_sampler == temporary_samplers[i]
           file == disk[sampler.target_name]
           t == [touched EXCEPT !.loaded = @ \cup {i}]
       IN  IF ~SameTemperature(sampler.temperature, temporary_sampler.temperature)
           THEN EssLeave("AssertionError", FInt(0), i, touched)
           ELSE IF file = <<>>
           THEN EssLeave("OSError", FInt(0), i, t)
           ELSE /\ traj' = file
                /\ log_w' = <<>>
                /\ frame' = 1
                /\ refPos' = x0
                /\ candPos' = x1
                /\ touched' = t
                /\ pc' = "ess_ref"
                /\ UNCHANGED <<ret, temporary_samplers, i, neffs,
                               potential_energy, weights0>>
    /\ UNCHANGED <<samplers, weights, disk, calls, loss_list, request>>

\* lines 89-90: U(x0, theta0)
EssRefEval ==
    /\ pc = "ess_ref"
    /\ refPos' = openmm_positions(traj, frame)
    /\ potential_energy' = PotentialEnergy("ref", refPos')
    /\ touched' = [touched EXCEPT !.evaluated = @ \cup {i}]
    /\ pc' = "ess_cand"
    /\ UNCHANGED <<samplers, weights, disk, ret, temporary_samplers, i, traj,
                   frame, log_w, neffs, candPos, weights0, calls, loss_list,
                   request>>

\* lines 92-98: U(x0, theta1), delta, the log-weight, the next frame
EssCandEval ==
    /\ pc = "ess_cand"
    /\ candPos' = openmm_positions(traj, frame)
    /\ LET reduced_potential_energy ==
               PotentialEnergy(temporary_samplers[i].theta, candPos')
           w == LogWeight(Systems[i].temperature, potential_energy,
                          reduced_potential_energy)
       IN  log_w' = Append(log_w, w)
    /\ frame' = frame + 1
    /\ pc' = IF frame < Len(traj) THEN "ess_ref" ELSE "ess_store"
    /\ UNCHANGED <<samplers, weights, disk, ret, temporary_samplers, i, traj,
                   neffs, potential_energy, refPos, touched, weights0, calls,
                   loss_list, request>>

\* self.weights with the record of `name` set to rec (line 111)
Store(wts, name, rec) ==
    [n \in DOMAIN wts \cup {name} |-> IF n = name THEN rec ELSE wts[n]]

\* line 113: neffs = [self.weights[key]['neff'] for key in self.weights.keys()]
NeffsOf(wts) ==
    LET keys == SetToSeq(DOMAIN wts)
    IN  [k \in DOMAIN keys |-> wts[keys[k]].neff]

\* lines 106-113: the weights, the ESS, the store, the list of all ESS values
EssStore ==
    /\ pc = "ess_store"
    /\ weights' = Store(weights, Systems[i].target_name, WeightRecord(log_w))
    /\ neffs' = Some(NeffsOf(weights'))
    /\ touched' = [touched EXCEPT !.stored = @ \cup {i}]
    /\ i' = i + 1
    /\ pc' = "ess_pair"
    /\ UNCHANGED <<samplers, disk, ret, temporary_samplers, traj, frame, log_w,
                   potential_energy, refPos, candPos, weights0, calls,
                   loss_list, request>>

\* line 115: return min(neffs); neffs is unbound when the loop never ran
EssReturn ==
    /\ pc = "ess_pair"
    /\ i > NPairs
    /\ IF neffs = None
       THEN EssLeave("UnboundLocalError", FInt(0), i, touched)
       ELSE EssLeave("ok", MinFrac(neffs[1]), i, touched)
    /\ UNCHANGED <<samplers, weights, disk, calls, loss_list, request>>

\* ------------------------------------------------------------------ loss
\* line 158: the operators of uncertain data
SkipOperators == {">", "<", ">=", "<=", "~"}

\* line 165: exp_error = 0.5, in units of 0.5
DefaultError == 1

Keys == {"k1", "k2"}             \* measurement keys of a structural unit

\* Usable forgetting the operators
UsableByValueOnly(m) == m.value # None

\* line 158, negated: the measurement enters the loss
Usable(m) == ~((m.operator # None /\ m.operator[1] \in SkipOperators)
               \/ m.value = None)

\* lines 162-174: the term one usable measurement m contributes, given the
\* prediction p of the same structural-unit position and key
LossTerm(m, p) ==
    LET exp_value == m.value[1]
        exp_error == IF m.error = None THEN DefaultError ELSE m.error[1]
        numerator == (p.avg - exp_value) * (p.avg - exp_value)
        dominator == exp_error * exp_error + p.std * p.std
    IN  Frac(numerator, dominator)

\* lines 156-174: the inner loop over the items of one structural unit
RECURSIVE LossOfItems(_, _, _)
LossOfItems(keys, exp_dict, pred_dict) ==
    IF Len(keys) = 0 THEN <<>>
    ELSE LET key == keys[1]
             here == IF Usable(exp_dict[key])
                     THEN <<LossTerm(exp_dict[key], pred_dict[key])>>
                     ELSE <<>>
         IN  here \o LossOfItems(Tail(keys), exp_dict, pred_dict)

\* lines 154-174: the outer loop, from structural-unit position r on;
\* list(pred.values())[resi_index] is pred[r]
RECURSIVE LossOfExp(_, _, _)
LossOfExp(exp, pred, r) ==
    IF r > Len(exp) THEN <<>>
    ELSE LossOfItems(SetToSeq(DOMAIN exp[r]), exp[r], pred[r])
             \o LossOfExp(exp, pred, r + 1)

\* line 176: torch.mean(torch.tensor(loss)); the mean of nothing is nan
TorchMean(loss) ==
    IF Len(loss) = 0 THEN NaN ELSE FDiv(NpSum(loss), FInt(Len(loss)))

\* lines 154-179: _compute_loss_per_system, given exp and pred
LossPerSystem(exp, pred) == TorchMean(LossOfExp(exp, pred, 1))

Measurement(op, v, e) == [operator |-> op, value |-> v, error |-> e]

\* ExperimentReader: the experiment.yml of each target (lines 200-205)
ExperimentOf(name) ==
    IF name = "A"
    THEN <<[k \in {"k1"} |-> Measurement(None, Some(2), None)]>>
    ELSE <<[k \in Keys |-> IF k = "k1"
                           THEN Measurement(Some(">"), Some(2), None)
                           ELSE Measurement(None, Some(4), Some(2))],
           [k \in {"k2"} |-> Measurement(None, None, None)]>>

\* ObservablePredictor: what compute_jcouplings can return, one entry per
\* structural-unit position and key
PredTable(shift, std) ==
    [r \in 1..MaxResi + 1 |-> [k \in Keys |->
        [avg |-> r + shift + (IF k = "k2" THEN 1 ELSE 0), std |-> std]]]

PredSet == {PredTable(0, 0), PredTable(1, 1)}

\* lines 234-237: the weights argument of compute_jcouplings, or the KeyError
\* of self.weights[target_name]
WeightsArg(wts, target_name) ==
    IF DOMAIN wts # {}
    THEN IF target_name \in DOMAIN wts
         THEN [raises |-> FALSE, arg |-> Some(wts[target_name].weights)]
         ELSE [raises |-> TRUE, arg |-> None]
    ELSE [raises |-> FALSE, arg |-> None]

LossLeave(status, at) ==
    /\ pc' = "idle"
    /\ ret' = [op |-> "loss", status |-> status, val |-> FInt(0), at |-> at,
               touched |-> NoTouch]
    /\ i' = 0

\* lines 126-127: compute_loss() is called; iterating None raises TypeError
LossCall ==
    /\ pc = "idle"
    /\ calls' = <<>>
    /\ touched' = NoTouch
    /\ loss_list' = <<>>
    /\ request' = NoRequest
    /\ IF samplers = None
       THEN LossLeave("TypeError", 0)
       ELSE /\ pc' = "loss"
            /\ ret' = [op |-> "loss", status |-> "running", val |-> FInt(0),
                       at |-> 0, touched |-> NoTouch]
            /\ i' = 1
    /\ UNCHANGED <<samplers, weights, disk, weights0, temporary_samplers, traj,
                   frame, log_w, neffs, potential_energy, refPos, candPos>>

\* lines 127-130 with 151-179 and 229-244: the loss of the next system, with
\* pred what compute_jcouplings returns
LossSystem(pred) ==
    /\ pc = "loss"
    /\ i <= Len(Systems)
    /\ LET sampler == Systems[i]
           exp == ExperimentOf(sampler.target_name)
           wa == WeightsArg(weights, sampler.target_name)
       IN  IF disk[sampler.target_name] = <<>>
           THEN /\ LossLeave("OSError", i)
                /\ UNCHANGED <<loss_list, request>>
           ELSE IF wa.raises
           THEN /\ LossLeave("KeyError", i)
                /\ UNCHANGED <<loss_list, request>>
           ELSE /\ request' = [target |-> sampler.target_name, arg |-> wa.arg]
                /\ loss_list' = Append(loss_list, LossPerSystem(exp, pred))
                /\ i' = i + 1
                /\ UNCHANGED <<pc, ret>>
    /\ UNCHANGED <<samplers, weights, disk, touched, weights0, calls,
                   temporary_samplers, traj, frame, log_w, neffs,
                   potential_energy, refPos, candPos>>

\* line 132: return loss_list
LossReturn ==
    /\ pc = "loss"
    /\ i > Len(Systems)
    /\ LossLeave("ok", i)
    /\ UNCHANGED <<samplers, weights, disk, touched, weights0, calls, loss_list,
                   request, temporary_samplers, traj, frame, log_w, neffs,
                   potential_energy, refPos, candPos>>

\* ------------------------------------------------------ pure-function state
VARIABLES
    fpc,                 \* "in": inputs drawn; "out": the function was applied
    log_in,              \* estimator input: the log-weights log_w
    w_out,               \* estimator output: the normalized weights
    neff_out,            \* estimator output: the ESS
    exp_in,              \* loss input: the experiment record
    pred_in,             \* loss input: the predicted observable
    loss_out             \* loss output: the per-system loss

pureVars == <<fpc, log_in, w_out, neff_out, exp_in, pred_in, loss_out>>

vars == <<sessVars, pureVars>>

PureIdle ==
    /\ fpc = "off"
    /\ log_in = <<>>
    /\ w_out = <<>>
    /\ neff_out = NaN
    /\ exp_in = <<>>
    /\ pred_in = <<>>
    /\ loss_out = NaN

\* the samplers sequences a caller configures: distinct target identifiers
SamplerSeqs ==
    {s \in SeqsUpTo(SamplerSet, MaxSystems) :
        \A a, b \in DOMAIN s : a # b => s[a].target_name # s[b].target_name}

\* the temporary samplers of one call share the candidate parameter set
TemporarySeqs ==
    {c \in SeqsUpTo(TemporarySet, MaxSystems) :
        \A a, b \in DOMAIN c : c[a].theta = c[b].theta}

Init == SessInit /\ PureIdle

Next ==
    \/ \E s \in SamplerSeqs : SetSamplers(s) /\ UNCHANGED pureVars
    \/ RunCall /\ UNCHANGED pureVars
    \/ \E fails \in BOOLEAN : RunMinimize(fails) /\ UNCHANGED pureVars
    \/ \E fails \in BOOLEAN, t \in TrajSet : RunRun(fails, t) /\ UNCHANGED pureVars
    \/ RunReturn /\ UNCHANGED pureVars
    \/ \E c \in TemporarySeqs : EssCall(c) /\ UNCHANGED pureVars
    \/ \E x0, x1 \in Positions : EssPair(x0, x1) /\ UNCHANGED pureVars
    \/ EssRefEval /\ UNCHANGED pureVars
    \/ EssCandEval /\ UNCHANGED pureVars
    \/ EssStore /\ UNCHANGED pureVars
    \/ EssReturn /\ UNCHANGED pureVars
    \/ LossCall /\ UNCHANGED pureVars
    \/ \E pred \in PredSet : LossSystem(pred) /\ UNCHANGED pureVars
    \/ LossReturn /\ UNCHANGED pureVars

Spec == Init /\ [][Next]_vars

\* ------------------------------------------- the estimator on its own
\* log-weights a pass can produce: moderate ones, and ones so negative that
\* their exponential underflows
LogSet == (-MaxLog..MaxLog) \cup {ExpUnderflow}

InitESS ==
    /\ SessInit
    /\ fpc = "in"
    /\ log_in \in UNION {[1..n -> LogSet] : n \in 1..MaxN}
    /\ w_out = <<>>
    /\ neff_out = NaN
    /\ exp_in = <<>>
    /\ pred_in = <<>>
    /\ loss_out = NaN

\* lines 106-107 applied to the drawn log-weights
EstimateApply ==
    /\ fpc = "in"
    /\ fpc' = "out"
    /\ w_out' = WeightRecord(log_in).weights
    /\ neff_out' = WeightRecord(log_in).neff
    /\ UNCHANGED <<log_in, exp_in, pred_in, loss_out>>
    /\ UNCHANGED sessVars

NextESS == EstimateApply

SpecESS == InitESS /\ [][NextESS]_vars

\* ------------------------------------------------- the loss on its own
Operators == {None} \cup {Some(o) : o \in SkipOperators}
Values    == {None, Some(2)}
Errors    == {None, Some(DefaultError), Some(2)}

\* the measurements drawn
Measurements == [operator : Operators, value : Values, error : Errors]

\* the structural units' key sets: at most MaxResi units, MaxMeas measurements
RECURSIVE ShapeSize(_)
ShapeSize(sh) ==
    IF Len(sh) = 0 THEN 0 ELSE Cardinality(sh[1]) + ShapeSize(Tail(sh))

Shapes(maxResi, maxMeas) ==
    {sh \in UNION {[1..n -> (SUBSET Keys) \ {{}}] : n \in 1..maxResi} :
        ShapeSize(sh) <= maxMeas}

\* the experiment records whose structural units have the key sets sh
RECURSIVE ExpsOf(_)
ExpsOf(sh) ==
    IF Len(sh) = 0 THEN {<<>>}
    ELSE {<<f>> \o rest : f \in [sh[1] -> Measurements], rest \in ExpsOf(Tail(sh))}

InitLoss ==
    /\ SessInit
    /\ fpc = "in"
    /\ log_in = <<>>
    /\ w_out = <<>>
    /\ neff_out = NaN
    /\ \E sh \in Shapes(MaxResi, MaxMeas) : exp_in \in ExpsOf(sh)
    /\ pred_in \in PredSet
    /\ loss_out = NaN

\* lines 154-179 applied to the drawn record and prediction
LossApply ==
    /\ fpc = "in"
    /\ fpc' = "out"
    /\ loss_out' = LossPerSystem(exp_in, pred_in)
    /\ UNCHANGED <<log_in, w_out, neff_out, exp_in, pred_in>>
    /\ UNCHANGED sessVars

NextLoss == LossApply

SpecLoss == InitLoss /\ [][NextLoss]_vars

\* ================================================================ claims
\* the record of a target in a weights mapping, None when it has none
Entry(wts, name) == IF name \in DOMAIN wts THEN Some(wts[name]) ELSE None

\* the log-weight of frame k of trajectory t for a pair, both energies taken
\* at that frame's positions
FrameLogWeight(sampler, temporary_sampler, t, k) ==
    LogWeight(sampler.temperature,
              PotentialEnergy("ref", t[k]),
              PotentialEnergy(temporary_sampler.theta, t[k]))

\* the record a pass owes a pair whose reference trajectory is t
RecordOf(sampler, temporary_sampler, t) ==
    WeightRecord([k \in 1..Len(t) |->
                     FrameLogWeight(sampler, temporary_sampler, t, k)])

NoSystems == samplers = None \/ Len(Systems) = 0

\* C1: a get_effective_sample_size call made with no systems configured
\* (samplers None, or an empty sequence) ends by returning -1, for any
\* argument, and leaves self.weights as it was.
C1_SentinelOnNoSystems ==
    [][(pc' = "idle" /\ ret'.op = "ess" /\ NoSystems)
          => (ret'.status = "ok" /\ ret'.val = FInt(-1) /\ weights' = weights)]_vars

\* C2: the value a pass returns is the minimum of the ESS values of exactly
\* the systems that pass processed (pairs 1 .. ret.at - 1).
C2_MinOverProcessed ==
    (pc = "idle" /\ ret.op = "ess" /\ ret.status = "ok" /\ samplers # None)
        => ret.val = MinFrac([j \in 1..(ret.at - 1) |->
                                 weights[Systems[j].target_name].neff])

\* C3: the loss step asks for the prediction with the cached weights of the
\* system's own target when self.weights has a record for it, and with
\* weights=None when it has none; it never fails on a missing key.
C3_WeightsArgument ==
    /\ ret.op = "loss" => ret.status # "KeyError"
    /\ (pc = "loss" /\ request.target # "")
           => request.arg = (IF request.target \in DOMAIN weights
                             THEN Some(weights[request.target].weights)
                             ELSE None)

\* C4: when the temperatures of pair i differ, the pass raises at pair i: it
\* ends with AssertionError, returns no value, has loaded no trajectory and
\* evaluated no energy for pair i or a later pair, and the records of pair i
\* and of every later pair are what they were when the pass began.
C4_TemperatureMismatch ==
    [][(/\ pc = "ess_pair"
        /\ i <= NPairs
        /\ Systems[i].temperature # temporary_samplers[i].temperature)
          => (/\ pc' = "idle"
              /\ ret'.op = "ess"
              /\ ret'.status = "AssertionError"
              /\ ret'.at = i
              /\ weights' = weights
              /\ \A j \in i..Len(Systems) :
                    /\ j \notin ret'.touched.loaded
                    /\ j \notin ret'.touched.evaluated
                    /\ j \notin ret'.touched.stored
                    /\ Entry(weights', Systems[j].target_name)
                           = Entry(weights0, Systems[j].target_name))]_vars

\* a pass stopped by the assertion at its second pair, the first done
C4_Witness ==
    /\ pc = "idle"
    /\ ret.op = "ess"
    /\ ret.status = "AssertionError"
    /\ ret.at = 2
    /\ ret.touched.stored = {1}

\* the k-th engine call of a run() that nothing stops
EngineCall(k) ==
    IF k % 2 = 1 THEN <<"minimize", (k + 1) \div 2>> ELSE <<"run", k \div 2>>

\* C5: run() calls minimize and then run on each system, in sequence order;
\* a failure of either on system k ends run() with that failure, the failing
\* call being the last engine call made.
C5_RunOrder ==
    /\ \A k \in DOMAIN calls : calls[k] = EngineCall(k)
    /\ pc = "run_minimize" => Len(calls) = 2 * (i - 1)
    /\ pc = "run_run" => Len(calls) = 2 * i - 1
    /\ (ret.op = "run" /\ ret.status = "EngineError")
           => /\ pc = "idle"
              /\ Len(calls) >= 1
              /\ calls[Len(calls)][2] = ret.at
    /\ (ret.op = "run" /\ ret.status = "ok") => Len(calls) = 2 * Len(Systems)

\* run() stopped by the failure of the first of two systems' run
C5_Witness ==
    /\ ret.op = "run"
    /\ ret.status = "EngineError"
    /\ samplers # None
    /\ Len(Systems) = 2
    /\ calls = <<<<"minimize", 1>>, <<"run", 1>>>>

\* C6: when a pass returns normally, every configured system i has, under its
\* target identifier, the record computed in this pass from the pair
\* (systems[i], candidate_systems[i]).
C6_AllRecordsStored ==
    [][(pc = "ess_pair" /\ pc' = "idle" /\ ret'.status = "ok")
          => \A j \in 1..Len(Systems) :
                /\ j <= Len(temporary_samplers)
                /\ Systems[j].target_name \in DOMAIN weights'
                /\ weights'[Systems[j].target_name]
                       = RecordOf(Systems[j], temporary_samplers[j],
                                  disk[Systems[j].target_name])]_vars

\* C7: every record of self.weights has as many weights as the reference
\* trajectory of its target currently has frames.
C7_RecordLength ==
    \A n \in DOMAIN weights : Len(weights[n].weights) = Len(disk[n])

\* C8: for log-weights of which at least one exponential is positive, the
\* normalized weights sum to 1, ESS is in (0, 1], ESS = 1 exactly when all
\* weights are equal, and ESS = 1/N when one frame carries all the weight.
C8_Estimator ==
    LET e == NpExp(log_in)
        N == Len(log_in)
    IN  (fpc = "out" /\ log_in # <<>> /\ \E k \in 1..N : e[k][1] > 0)
            => /\ Len(w_out) = N
               /\ NpSum(w_out) = FInt(1)
               /\ FLt(FInt(0), neff_out)
               /\ FLe(neff_out, FInt(1))
               /\ (neff_out = FInt(1)) <=> (\A j, k \in 1..N : w_out[j] = w_out[k])
               /\ (\A j, k \in 1..N : log_in[j] = log_in[k]) => neff_out = FInt(1)
               /\ Cardinality({k \in 1..N : e[k][1] > 0}) = 1
                      => neff_out = Frac(1, N)

\* three frames, one of them carrying all the weight
C8_Witness ==
    /\ fpc = "out"
    /\ Len(log_in) = 3
    /\ Cardinality({k \in 1..3 : log_in[k] = ExpUnderflow}) = 2
    /\ neff_out = Frac(1, 3)

\* the measurements that have a value and no operator of uncertain data
UsableAt(exp) ==
    {rk \in (1..Len(exp)) \X Keys :
        /\ rk[2] \in DOMAIN exp[rk[1]]
        /\ exp[rk[1]][rk[2]].value # None
        /\ \A o \in {">", "<", ">=", "<=", "~"} :
              exp[rk[1]][rk[2]].operator # Some(o)}

\* (pred_avg - exp_value)^2 / (exp_error^2 + pred_std^2), in units of 0.5,
\* a missing error counting as 0.5
TermAt(exp, pred, rk) ==
    LET m == exp[rk[1]][rk[2]]
        p == pred[rk[1]][rk[2]]
        err == IF m.error = None THEN 1 ELSE m.error[1]
    IN  Frac((p.avg - m.value[1]) * (p.avg - m.value[1]),
             err * err + p.std * p.std)

RECURSIVE SumAt(_, _, _)
SumAt(exp, pred, S) ==
    IF S = {} THEN FInt(0)
    ELSE LET rk == CHOOSE x \in S : TRUE
         IN  FAdd(TermAt(exp, pred, rk), SumAt(exp, pred, S \ {rk}))

\* exp with every missing error made an explicit 0.5
WithDefaultErrors(exp) ==
    [r \in DOMAIN exp |-> [k \in DOMAIN exp[r] |->
        [exp[r][k] EXCEPT !.error = IF @ = None THEN Some(1) ELSE @]]]

\* exp with the value and error of every operator-carrying measurement removed
WithoutBounded(exp) ==
    [r \in DOMAIN exp |-> [k \in DOMAIN exp[r] |->
        IF exp[r][k].operator = None THEN exp[r][k]
        ELSE [exp[r][k] EXCEPT !.value = None, !.error = None]]]

\* C9: the per-system loss is the mean of the terms of exactly the usable
\* measurements; a missing error acts as 0.5; a measurement with one of the
\* five operators contributes nothing whatever its value and error.
C9_LossMean ==
    fpc = "out" =>
        LET U == UsableAt(exp_in)
        IN  /\ U # {} => loss_out = FDiv(SumAt(exp_in, pred_in, U),
                                          FInt(Cardinality(U)))
            /\ U = {} => loss_out = NaN
            /\ loss_out = LossPerSystem(WithDefaultErrors(exp_in), pred_in)
            /\ loss_out = LossPerSystem(WithoutBounded(exp_in), pred_in)

\* a record with one measurement under '>' that has a value, and one usable
\* measurement whose error is missing
C9_Witness ==
    /\ fpc = "out"
    /\ loss_out # NaN
    /\ Len(exp_in) = 2
    /\ \E k \in DOMAIN exp_in[1] :
          exp_in[1][k].operator = Some(">") /\ exp_in[1][k].value # None
    /\ \E k \in DOMAIN exp_in[2] :
          /\ exp_in[2][k].operator = None
          /\ exp_in[2][k].value # None
          /\ exp_in[2][k].error = None

\* C10: every log-weight of the running pair is -beta * (U1(x_k) - U0(x_k))
\* with both energies read at frame k's positions, each context holding frame
\* k's positions when its energy is read, and the k-th stored weight is the
\* normalized exponential of frame k's log-weight.
C10_FrameAlignment ==
    /\ pc \in {"ess_ref", "ess_cand", "ess_store"}
           => \A k \in DOMAIN log_w :
                  log_w[k] = FrameLogWeight(Systems[i], temporary_samplers[i], traj, k)
    /\ pc = "ess_cand"
           => /\ Len(log_w) = frame - 1
              /\ refPos = traj[frame]
              /\ potential_energy = PotentialEnergy("ref", traj[frame])
    /\ (pc = "ess_ref" /\ frame > 1) => candPos = traj[frame - 1]
    /\ pc = "ess_store" => Len(log_w) = Len(traj)
    /\ (pc = "ess_pair" /\ i > 1)
           => LET stored == weights[Systems[i - 1].target_name].weights
                  lw == [k \in 1..Len(traj) |->
                            FrameLogWeight(Systems[i - 1],
                                           temporary_samplers[i - 1], traj, k)]
              IN  /\ Len(stored) = Len(traj)
                  /\ \A k \in 1..Len(traj) :
                        stored[k] = FDiv(NpExp1(lw[k]), NpSum(NpExp(lw)))

\* a two-frame pair just stored, its frames weighted differently
C10_Witness ==
    /\ pc = "ess_pair"
    /\ i > 1
    /\ Len(traj) = 2
    /\ weights[Systems[i - 1].target_name].weights[1]
           # weights[Systems[i - 1].target_name].weights[2]

====
